---------------------------- MODULE Spec2Model ----------------------------
(***************************************************************************)
(* Model of the cooklang NIF bindings (native/cooklang_nif/src/lib.rs):    *)
(* the entry points parse and parse_and_scale, the conversion of the       *)
(* parser's AST into the output model (convert_recipe, convert_quantity,   *)
(* convert_step) and the serde serialization of the output model.          *)
(*                                                                         *)
(* The recipe parser and the scaler belong to the cooklang crate.  The     *)
(* parser is modelled by its outcome (a PassResult: an optional AST and a  *)
(* report), the scaler by its documented contract.                         *)
(*                                                                         *)
(* Rust values are modelled as follows.                                    *)
(*   Option<T>      the empty sequence (None) or a one-element sequence    *)
(*   String         a TLA+ string                                          *)
(*   f64            an exact rational <<n, d>> in lowest terms, d > 0      *)
(*   Vec<T>         a sequence                                             *)
(*   HashMap<K, V>  a function; its iteration order is not part of it      *)
(*   enum           a record whose field names tell the variant           *)
(*   JSON text      the tree of the serializer's events: objects keep the  *)
(*                  order in which their fields were written               *)
(***************************************************************************)
EXTENDS Integers, Sequences, FiniteSets, TLC

VARIABLES
    parsed,   \* parser.parse(input): [output: Option<Recipe>, report: Vec<diag>]
    target,   \* target_servings
    call,     \* the entry point that returned last ("none" before any call)
    result,   \* what it returned: Ok(json) or Err(message)
    output    \* the RecipeOutput it built, if any (Option<RecipeOutput>)

vars == <<parsed, target, call, result, output>>

---------------------------------------------------------------------------
(* Bounds of the model *)

MaxIngredients == 2
MaxTools == 1
MaxTarget == 4
MaxMeta == 2
MaxItems == 3
MaxContent == 2
MaxSections == 2
MaxDiags == 3

---------------------------------------------------------------------------
(* Option, Result and f64 *)

None == <<>>
Some(x) == <<x>>
is_none(o) == Len(o) = 0
is_some(o) == Len(o) = 1
unwrap(o) == o[1]
unwrap_or(o, d) == IF Len(o) = 0 THEN d ELSE o[1]

Ok(v) == [ok |-> v]
Err(m) == [err |-> m]
NoResult == [none |-> TRUE]
is_ok(r) == "ok" \in DOMAIN r
is_err(r) == "err" \in DOMAIN r

Abs(n) == IF n < 0 THEN 0 - n ELSE n

RECURSIVE Gcd(_, _)
Gcd(a, b) == IF b = 0 THEN a ELSE Gcd(b, a % b)

Rat(n, d) ==
    LET g == Gcd(Abs(n), Abs(d))
        s == IF d < 0 THEN 0 - 1 ELSE 1
    IN  <<(s * n) \div g, (s * d) \div g>>

Mul(x, y) == Rat(x[1] * y[1], x[2] * y[2])

SeqsUpTo(S, n) == UNION {[1..k -> S] : k \in 0..n}

Range(f) == {f[i] : i \in DOMAIN f}

Perms(S) == {p \in [1..Cardinality(S) -> S] : Range(p) = S}

---------------------------------------------------------------------------
(* The AST of the cooklang crate, as lib.rs reads it *)

\* cooklang::Value
Number(x) == [number |-> x]
RangeValue(a, b) == [start |-> a, end |-> b]
TextValue(t) == [text |-> t]

\* cooklang::Quantity: value() is always there, unit() is optional
Quantity(v, u) == [value |-> v, unit |-> u]

\* cooklang::Item
ItemText(s) == [text |-> s]
ItemIngredient(i) == [ingredient |-> i]
ItemCookware(i) == [cookware |-> i]
ItemTimer(i) == [timer |-> i]
ItemInlineQuantity(i) == [inline_quantity |-> i]

\* cooklang::Content
ContentStep(items) == [step |-> [items |-> items]]
ContentText(t) == [text |-> t]

\* A metadata key or value (a YAML value): a string, or something else
YStr(s) == [str |-> s]
YNum(n) == [num |-> n]
as_str(y) == IF "str" \in DOMAIN y THEN Some(y.str) ELSE None

\* A diagnostic of the report
Warning(m) == [severity |-> "warning", message |-> m]
Error(m) == [severity |-> "error", message |-> m]


---------------------------------------------------------------------------
(* The serializable output types *)

ValueOutputNumber(x) == [Number |-> x]
ValueOutputText(t) == [Text |-> t]
ValueOutputRange(a, b) == [Range |-> [start |-> a, end |-> b]]

QuantityOutput(v, u) == [value |-> v, unit |-> u]
IngredientOutput(n, q, t) == [name |-> n, quantity |-> q, note |-> t]
CookwareOutput(n, q, t) == [name |-> n, quantity |-> q, note |-> t]
TimerOutput(n, q) == [name |-> n, quantity |-> q]
SectionOutput(n, c) == [name |-> n, content |-> c]
StepOutput(items) == [items |-> items]

ItemOutputText(s) == [type |-> "text", value |-> s]
ItemOutputIngredient(i) == [type |-> "ingredient", index |-> i]
ItemOutputCookware(i) == [type |-> "cookware", index |-> i]
ItemOutputTimer(i) == [type |-> "timer", index |-> i]

RecipeOutput(m, i, c, t, s, w) ==
    [metadata |-> m, ingredients |-> i, cookware |-> c, timers |-> t,
     sections |-> s, warnings |-> w]

---------------------------------------------------------------------------
(* Conversion helpers *)

\* Mutation of convert_quantity: the end of a range is read from its start
convert_quantity_range_start(q) ==
    LET value ==
            CASE "number" \in DOMAIN q.value ->
                    Some([Number |-> q.value.number])
              [] "start" \in DOMAIN q.value ->
                    Some([Range |-> [start |-> q.value.start, end |-> q.value.start]])
              [] "text" \in DOMAIN q.value ->
                    Some([Text |-> q.value.text])
    IN  [value |-> value, unit |-> q.unit]

convert_quantity(q) ==
    LET value ==
            CASE "number" \in DOMAIN q.value ->
                    Some(ValueOutputNumber(q.value.number))
              [] "start" \in DOMAIN q.value ->
                    Some(ValueOutputRange(q.value.start, q.value.end))
              [] "text" \in DOMAIN q.value ->
                    Some(ValueOutputText(q.value.text))
    IN  QuantityOutput(value, q.unit)

\* Option::map(convert_quantity)
map_convert_quantity(o) ==
    IF is_none(o) THEN None ELSE Some(convert_quantity(unwrap(o)))

\* Mutation of convert_item: references are renumbered from one
convert_item_one_based(item) ==
    CASE "text" \in DOMAIN item -> ItemOutputText(item.text)
      [] "ingredient" \in DOMAIN item -> ItemOutputIngredient(item.ingredient + 1)
      [] "cookware" \in DOMAIN item -> ItemOutputCookware(item.cookware + 1)
      [] "timer" \in DOMAIN item -> ItemOutputTimer(item.timer + 1)
      [] "inline_quantity" \in DOMAIN item -> ItemOutputText("")

convert_item(item) ==
    CASE "text" \in DOMAIN item -> ItemOutputText(item.text)
      [] "ingredient" \in DOMAIN item -> ItemOutputIngredient(item.ingredient)
      [] "cookware" \in DOMAIN item -> ItemOutputCookware(item.cookware)
      [] "timer" \in DOMAIN item -> ItemOutputTimer(item.timer)
      [] "inline_quantity" \in DOMAIN item -> ItemOutputText("")

\* Mutation of convert_step: inline quantities are left out
convert_step_drop_inline(step) ==
    LET kept == SelectSeq(step.items, LAMBDA x : "inline_quantity" \notin DOMAIN x)
    IN  StepOutput([i \in 1..Len(kept) |-> convert_item(kept[i])])

convert_step(step) ==
    StepOutput([i \in 1..Len(step.items) |-> convert_item(step.items[i])])

\* Mutation of filter_map_steps: conversion stops at the first entry that is no step
RECURSIVE map_while_steps(_)
map_while_steps(content) ==
    IF content = <<>> THEN <<>>
    ELSE LET item == Head(content)
         IN  IF "step" \in DOMAIN item
             THEN <<convert_step(item.step)>> \o map_while_steps(Tail(content))
             ELSE <<>>

\* section.content.iter().filter_map(..).collect()
RECURSIVE filter_map_steps(_)
filter_map_steps(content) ==
    IF content = <<>> THEN <<>>
    ELSE LET item == Head(content)
         IN  (IF "step" \in DOMAIN item
              THEN <<convert_step(item.step)>>
              ELSE <<>>) \o filter_map_steps(Tail(content))

convert_section(section) ==
    SectionOutput(section.name, filter_map_steps(section.content))

\* HashMap::insert: a later entry with the same key replaces the earlier one
insert(m, k, v) == [x \in DOMAIN m \cup {k} |-> IF x = k THEN v ELSE m[x]]

EmptyMap == [x \in {} |-> ""]

\* Mutation of collect_metadata: an entry whose key is no string is left out
RECURSIVE collect_metadata_string_keys(_, _)
collect_metadata_string_keys(m, entries) ==
    IF entries = <<>> THEN m
    ELSE LET k == Head(entries)[1]
             v == Head(entries)[2]
         IN  IF is_none(as_str(k))
             THEN collect_metadata_string_keys(m, Tail(entries))
             ELSE collect_metadata_string_keys(
                      insert(m, unwrap(as_str(k)), unwrap_or(as_str(v), "")),
                      Tail(entries))

\* recipe.metadata.map.iter().map(..).collect::<HashMap<_, _>>()
RECURSIVE collect_metadata(_, _)
collect_metadata(m, entries) ==
    IF entries = <<>> THEN m
    ELSE LET k == Head(entries)[1]
             v == Head(entries)[2]
             key == unwrap_or(as_str(k), "")
             value == unwrap_or(as_str(v), "")
         IN  collect_metadata(insert(m, key, value), Tail(entries))

convert_ingredient(ing) ==
    IngredientOutput(ing.name, map_convert_quantity(ing.quantity), ing.note)

convert_cookware(cw) ==
    CookwareOutput(cw.name, map_convert_quantity(cw.quantity), cw.note)

convert_timer(t) ==
    TimerOutput(t.name, map_convert_quantity(t.quantity))

\* report.warnings() / report.errors(): the messages of one severity, in order
messages(report, severity) ==
    LET ds == SelectSeq(report, LAMBDA d : d.severity = severity)
    IN  [i \in 1..Len(ds) |-> ds[i].message]

warnings(report) == messages(report, "warning")
errors(report) == messages(report, "error")

\* Mutation of warning_strings: a repeated message is reported once
RECURSIVE warning_strings_dedup(_)
warning_strings_dedup(report) ==
    IF report = <<>> THEN <<>>
    ELSE LET rest == warning_strings_dedup(SubSeq(report, 1, Len(report) - 1))
             last == report[Len(report)]
         IN  IF last.severity = "warning" /\ last.message \notin Range(rest)
             THEN Append(rest, last.message)
             ELSE rest

\* report.warnings().map(|w| w.message.to_string()).collect()
warning_strings(report) == warnings(report)

convert_recipe(recipe, report) ==
    RecipeOutput(
        collect_metadata(EmptyMap, recipe.metadata),
        [i \in 1..Len(recipe.ingredients) |-> convert_ingredient(recipe.ingredients[i])],
        [i \in 1..Len(recipe.cookware) |-> convert_cookware(recipe.cookware[i])],
        [i \in 1..Len(recipe.timers) |-> convert_timer(recipe.timers[i])],
        [i \in 1..Len(recipe.sections) |-> convert_section(recipe.sections[i])],
        warning_strings(report))

---------------------------------------------------------------------------
(* Serialization: the derived Serialize implementations and serde_json *)

JStr(s) == [str |-> s]
JNum(x) == [num |-> x]
JInt(i) == [int |-> i]
JArr(a) == [arr |-> a]
JObj(fields) == [obj |-> fields]
JNull == [null |-> TRUE]

\* Mutation of ser_option: an absent field is written as null
ser_option_null(k, o) == IF is_none(o) THEN << <<k, JNull>> >> ELSE << <<k, unwrap(o)>> >>

\* A field that is always written
ser_field(k, j) == << <<k, j>> >>

\* #[serde(skip_serializing_if = "Option::is_none")] on an Option field whose
\* content serializes to j
ser_option(k, o) == IF is_none(o) THEN <<>> ELSE << <<k, unwrap(o)>> >>

map_JStr(o) == IF is_none(o) THEN None ELSE Some(JStr(unwrap(o)))

\* #[serde(untagged)] enum ValueOutput
ser_value(v) ==
    CASE "Number" \in DOMAIN v -> JNum(v.Number)
      [] "Text" \in DOMAIN v -> JStr(v.Text)
      [] "Range" \in DOMAIN v ->
            JObj(ser_field("start", JNum(v.Range.start))
                 \o ser_field("end", JNum(v.Range.end)))

map_ser_value(o) == IF is_none(o) THEN None ELSE Some(ser_value(unwrap(o)))

ser_quantity(q) ==
    JObj(ser_option("value", map_ser_value(q.value))
         \o ser_option("unit", map_JStr(q.unit)))

map_ser_quantity(o) == IF is_none(o) THEN None ELSE Some(ser_quantity(unwrap(o)))

ser_ingredient(x) ==
    JObj(ser_field("name", JStr(x.name))
         \o ser_option("quantity", map_ser_quantity(x.quantity))
         \o ser_option("note", map_JStr(x.note)))

ser_cookware(x) ==
    JObj(ser_field("name", JStr(x.name))
         \o ser_option("quantity", map_ser_quantity(x.quantity))
         \o ser_option("note", map_JStr(x.note)))

ser_timer(x) ==
    JObj(ser_option("name", map_JStr(x.name))
         \o ser_option("quantity", map_ser_quantity(x.quantity)))

\* #[serde(tag = "type")] enum ItemOutput
ser_item(x) ==
    IF x.type = "text"
    THEN JObj(ser_field("type", JStr(x.type)) \o ser_field("value", JStr(x.value)))
    ELSE JObj(ser_field("type", JStr(x.type)) \o ser_field("index", JInt(x.index)))

ser_step(x) ==
    JObj(ser_field("items", JArr([i \in 1..Len(x.items) |-> ser_item(x.items[i])])))

ser_section(x) ==
    JObj(ser_option("name", map_JStr(x.name))
         \o ser_field("content",
                      JArr([i \in 1..Len(x.content) |-> ser_step(x.content[i])])))

\* A HashMap serializes its entries in the order of its iterator.  That order
\* comes from the map's RandomState, which every HashMap draws anew: order is
\* any enumeration of the keys.
ser_metadata(m, order) ==
    JObj([i \in 1..Len(order) |-> <<order[i], JStr(m[order[i]])>>])

ser_strings(ss) == JArr([i \in 1..Len(ss) |-> JStr(ss[i])])

\* serde_json::to_string(&output); order is the iteration order of output.metadata
to_string(out, order) ==
    JObj(ser_field("metadata", ser_metadata(out.metadata, order))
         \o ser_field("ingredients",
                JArr([i \in 1..Len(out.ingredients) |-> ser_ingredient(out.ingredients[i])]))
         \o ser_field("cookware",
                JArr([i \in 1..Len(out.cookware) |-> ser_cookware(out.cookware[i])]))
         \o ser_field("timers",
                JArr([i \in 1..Len(out.timers) |-> ser_timer(out.timers[i])]))
         \o ser_field("sections",
                JArr([i \in 1..Len(out.sections) |-> ser_section(out.sections[i])]))
         \o ser_field("warnings", ser_strings(out.warnings)))

---------------------------------------------------------------------------
(* The scaler of the cooklang crate, by its contract *)

ScaleErrorMessage == "the recipe has no valid base servings"

\* The declared serving count: the number under the metadata key "servings"
RECURSIVE servings(_)
servings(entries) ==
    IF entries = <<>> THEN None
    ELSE LET k == Head(entries)[1]
             v == Head(entries)[2]
         IN  IF k = YStr("servings")
             THEN (IF "num" \in DOMAIN v /\ v.num > 0 THEN Some(v.num) ELSE None)
             ELSE servings(Tail(entries))

scale_value(v, factor) ==
    CASE "number" \in DOMAIN v -> Number(Mul(v.number, factor))
      [] "start" \in DOMAIN v -> RangeValue(Mul(v.start, factor), Mul(v.end, factor))
      [] "text" \in DOMAIN v -> v

scale_quantity(o, factor) ==
    IF is_none(o) THEN None
    ELSE Some(Quantity(scale_value(unwrap(o).value, factor), unwrap(o).unit))

scale_entities(es, factor) ==
    [i \in 1..Len(es) |-> [es[i] EXCEPT !.quantity = scale_quantity(@, factor)]]

scale(recipe, factor) ==
    [recipe EXCEPT !.ingredients = scale_entities(@, factor),
                   !.cookware = scale_entities(@, factor),
                   !.timers = scale_entities(@, factor)]

\* Recipe::scale_to_servings: Ok(the scaled recipe) or Err(message)
scale_to_servings(recipe, target_servings) ==
    LET base == servings(recipe.metadata)
    IN  IF is_none(base) THEN Err(ScaleErrorMessage)
        ELSE Ok(scale(recipe, Rat(target_servings, unwrap(base))))

---------------------------------------------------------------------------
(* NIF functions *)

\* PassResult::into_result is Ok only with an output and no error in the report
is_valid(p) == is_some(p.output) /\ errors(p.report) = <<>>

\* Vec<String>::join(sep)
RECURSIVE join(_, _)
join(ss, sep) ==
    IF ss = <<>> THEN ""
    ELSE IF Len(ss) = 1 THEN ss[1]
    ELSE ss[1] \o sep \o join(Tail(ss), sep)

\* Mutation of error_msg: only the first error is reported
error_msg_first(report) ==
    IF errors(report) = <<>> THEN "" ELSE errors(report)[1]

\* report.errors().map(|e| e.message.to_string()).collect::<Vec<_>>().join("\n")
error_msg(report) == join(errors(report), "\n")

\* What an entry point returns, and the RecipeOutput it built on the way
Return(r, out) == [result |-> r, output |-> out]

parse(p, order) ==
    IF is_valid(p)
    THEN LET out == convert_recipe(unwrap(p.output), p.report)
         IN  Return(Ok(to_string(out, order)), Some(out))
    ELSE Return(Err(error_msg(p.report)), None)

\* Mutation of parse_and_scale: a scaler failure falls back to the unscaled recipe
parse_and_scale_fallback(p, target_servings, order) ==
    IF is_valid(p)
    THEN LET recipe == unwrap(p.output)
             scaled == scale_to_servings(recipe, target_servings)
             out == convert_recipe(IF is_err(scaled) THEN recipe ELSE scaled.ok,
                                   p.report)
         IN  Return(Ok(to_string(out, order)), Some(out))
    ELSE Return(Err(error_msg(p.report)), None)

parse_and_scale(p, target_servings, order) ==
    IF is_valid(p)
    THEN LET recipe == unwrap(p.output)
             scaled == scale_to_servings(recipe, target_servings)
         IN  IF is_err(scaled)
             THEN Return(Err("Scaling error: " \o scaled.err), None)
             ELSE LET out == convert_recipe(scaled.ok, p.report)
                  IN  Return(Ok(to_string(out, order)), Some(out))
    ELSE Return(Err(error_msg(p.report)), None)

---------------------------------------------------------------------------
(* The inputs: parser outcomes and target serving counts *)

Recipe(m, i, c, t, s) ==
    [metadata |-> m, ingredients |-> i, cookware |-> c, timers |-> t, sections |-> s]

PassResult(o, r) == [output |-> o, report |-> r]

Entity(n, q, t) == [name |-> n, quantity |-> q, note |-> t]
Timer(n, q) == [name |-> n, quantity |-> q]
Section(n, c) == [name |-> n, content |-> c]

Salt == Entity("salt", Some(Quantity(Number(Rat(1, 1)), Some("tsp"))), None)
Flour == Entity("flour", Some(Quantity(RangeValue(Rat(1, 1), Rat(3, 2)), None)),
                Some("sifted"))
Pepper == Entity("pepper", Some(Quantity(TextValue("a pinch"), None)), None)
Pan == Entity("pan", None, None)
Bowl == Entity("bowl", Some(Quantity(Number(Rat(2, 1)), None)), Some("large"))
Boil == Timer(None, Some(Quantity(Number(Rat(10, 1)), Some("min"))))
Rest == Timer(Some("rest"), None)

IngredientPool == {Salt, Flour, Pepper}
CookwarePool == {Pan, Bowl}
TimerPool == {Boil, Rest}

StepA == ContentStep(<<ItemText("Add "), ItemIngredient(0)>>)
StepB == ContentStep(<<ItemTimer(0)>>)
ContentPool == {ContentText("Intro"), StepA, StepB}

ItemPool ==
    {ItemText("Add "), ItemIngredient(0), ItemIngredient(1), ItemCookware(0),
     ItemTimer(0), ItemInlineQuantity(0)}

SectionPool ==
    {Section(Some("Prep"), <<StepA, ContentText("Intro"), StepB>>),
     Section(None, <<StepB, StepA>>),
     Section(None, <<>>)}

Servings2 == <<YStr("servings"), YNum(2)>>
BaseSections == <<Section(None, <<StepA>>)>>
BaseRecipe == Recipe(<<Servings2>>, <<Salt>>, <<>>, <<>>, BaseSections)

Targets == 1..MaxTarget

\* Metadata maps: entries with distinct keys, in the order of the map
MetaKeys == {YStr("servings"), YStr("title"), YNum(1), YNum(2)}
MetaValues == {YStr("Soup"), YNum(2), YNum(4)}
Metadatas ==
    {m \in SeqsUpTo(MetaKeys \X MetaValues, MaxMeta) :
        \A i, j \in 1..Len(m) : i # j => m[i][1] # m[j][1]}

\* Recipes that differ in their ingredients, with or without declared servings
IngredientInputs ==
    {PassResult(Some(Recipe(m, i, <<Bowl>>, <<Boil>>, BaseSections)), <<>>) :
        m \in {<<>>, <<Servings2>>},
        i \in SeqsUpTo(IngredientPool, MaxIngredients)}

\* Recipes that differ in their cookware and timers
ToolInputs ==
    {PassResult(Some(Recipe(m, <<Salt>>, c, t, BaseSections)), <<>>) :
        m \in {<<>>, <<Servings2>>},
        c \in SeqsUpTo(CookwarePool, MaxTools),
        t \in SeqsUpTo(TimerPool, MaxTools)}

\* Recipes that differ in their metadata
MetadataInputs ==
    {PassResult(Some([BaseRecipe EXCEPT !.metadata = m]), <<>>) : m \in Metadatas}

\* Recipes that differ in the items of their one step
ItemInputs ==
    {PassResult(Some(Recipe(<<Servings2>>, <<Salt, Flour>>, <<Pan>>, <<Boil>>,
                            <<Section(None, <<ContentStep(items)>>)>>)), <<>>) :
        items \in SeqsUpTo(ItemPool, MaxItems)}

\* Recipes that differ in the content of their one section
ContentInputs ==
    {PassResult(Some(Recipe(<<Servings2>>, <<Salt>>, <<>>, <<Boil>>,
                            <<Section(n, c)>>)), <<>>) :
        n \in {None, Some("Prep")}, c \in SeqsUpTo(ContentPool, MaxContent)}

\* Recipes that differ in their sections
SectionInputs ==
    {PassResult(Some(Recipe(<<Servings2>>, <<Salt>>, <<>>, <<Boil>>, s)), <<>>) :
        s \in SeqsUpTo(SectionPool, MaxSections)}

\* Successful parses that differ in their warnings
WarningInputs ==
    {PassResult(Some(BaseRecipe), r) :
        r \in SeqsUpTo({Warning("w1"), Warning("w2")}, MaxDiags)}

\* Failed parses: a report with at least one error, with or without an output
ErrorInputs ==
    {PassResult(o, r) :
        o \in {None, Some(BaseRecipe)},
        r \in {x \in SeqsUpTo({Warning("w1"), Error("e1"), Error("e2")}, MaxDiags) :
                  \E i \in 1..Len(x) : x[i].severity = "error"}}

Init ==
    /\ \/ parsed \in IngredientInputs /\ target \in Targets
       \/ parsed \in ToolInputs /\ target \in Targets
       \/ parsed \in MetadataInputs /\ target = MaxTarget
       \/ parsed \in ItemInputs /\ target = MaxTarget
       \/ parsed \in ContentInputs /\ target = MaxTarget
       \/ parsed \in SectionInputs /\ target = MaxTarget
       \/ parsed \in WarningInputs /\ target = MaxTarget
       \/ parsed \in ErrorInputs /\ target = MaxTarget
    /\ call = "none"
    /\ result = NoResult
    /\ output = None

---------------------------------------------------------------------------
(* The entry points *)

\* The orders in which the metadata HashMap of this call can iterate
iteration_orders(p) ==
    IF is_valid(p)
    THEN Perms(DOMAIN collect_metadata(EmptyMap, unwrap(p.output).metadata))
    ELSE {<<>>}

Parse ==
    \E order \in iteration_orders(parsed) :
        LET r == parse(parsed, order)
        IN  /\ call' = "parse"
            /\ result' = r.result
            /\ output' = r.output
            /\ UNCHANGED <<parsed, target>>

ParseAndScale ==
    \E order \in iteration_orders(parsed) :
        LET r == parse_and_scale(parsed, target, order)
        IN  /\ call' = "parse_and_scale"
            /\ result' = r.result
            /\ output' = r.output
            /\ UNCHANGED <<parsed, target>>

Next == Parse \/ ParseAndScale

Spec == Init /\ [][Next]_vars

---------------------------------------------------------------------------
(* Helpers of the properties *)

\* The recipe that the last call handed to convert_recipe (when it returned Ok)
ConvertedRecipe ==
    IF call = "parse" THEN unwrap(parsed.output)
    ELSE scale_to_servings(unwrap(parsed.output), target).ok

Returned == call # "none"

\* The lines of a string: its pieces between newlines
RECURSIVE Lines(_)
Lines(s) ==
    LET breaks == {i \in 1..Len(s) : SubSeq(s, i, i) = "\n"}
    IN  IF breaks = {} THEN <<s>>
        ELSE LET i == CHOOSE b \in breaks : \A c \in breaks : b <= c
             IN  <<SubSeq(s, 1, i - 1)>> \o Lines(SubSeq(s, i + 1, Len(s)))

ErrorMessages ==
    LET es == SelectSeq(parsed.report, LAMBDA d : d.severity = "error")
    IN  [i \in 1..Len(es) |-> es[i].message]

\* An output value is the AST value it was converted from
ValueAgrees(w, v) ==
    CASE "number" \in DOMAIN v -> w = [Number |-> v.number]
      [] "start" \in DOMAIN v -> w = [Range |-> [start |-> v.start, end |-> v.end]]
      [] "text" \in DOMAIN v -> w = [Text |-> v.text]

QuantityAgrees(o, a) ==
    /\ is_none(o) <=> is_none(a)
    /\ is_some(a) =>
          /\ unwrap(o).unit = unwrap(a).unit
          /\ is_some(unwrap(o).value)
          /\ ValueAgrees(unwrap(unwrap(o).value), unwrap(a).value)

\* The step entries of a section's content, in order
StepsOf(section) == SelectSeq(section.content, LAMBDA c : "step" \in DOMAIN c)

---------------------------------------------------------------------------
(* C1: when the parser's report holds one or more errors, parse and         *)
(* parse_and_scale return a failure whose message is all the error         *)
(* messages of the report, in report order, joined by one newline each;    *)
(* no output model is built and no success payload is returned.            *)
C1_ParseFailureJoinsAllErrors ==
    (Returned /\ ErrorMessages # <<>>) =>
        /\ is_err(result)
        /\ Lines(result.err) = ErrorMessages
        /\ output = None

C1_Witness ==
    /\ call = "parse_and_scale"
    /\ Len(ErrorMessages) >= 2
    /\ Len(parsed.report) > Len(ErrorMessages)
    /\ is_some(parsed.output)
    /\ is_err(result)
    /\ result.err = "e2\ne1"

---------------------------------------------------------------------------
(* C2: scaling in parse_and_scale is all-or-nothing.  When the parse       *)
(* succeeds and the scaler fails, parse_and_scale returns a failure that   *)
(* carries the scaler's message and builds no output model; when it        *)
(* returns success, the payload serializes an output model whose every     *)
(* quantity is the quantity of the scaled clone.                           *)
C2_ScalingAllOrNothing ==
    (call = "parse_and_scale" /\ is_valid(parsed)) =>
        LET scaled == scale_to_servings(unwrap(parsed.output), target)
        IN  IF is_err(scaled)
            THEN /\ is_err(result)
                 /\ result.err = "Scaling error: " \o scaled.err
                 /\ output = None
            ELSE /\ is_ok(result)
                 /\ is_some(output)
                 /\ \E order \in iteration_orders(parsed) :
                        result.ok = to_string(unwrap(output), order)
                 /\ \A i \in 1..Len(scaled.ok.ingredients) :
                        QuantityAgrees(unwrap(output).ingredients[i].quantity,
                                       scaled.ok.ingredients[i].quantity)
                 /\ \A i \in 1..Len(scaled.ok.cookware) :
                        QuantityAgrees(unwrap(output).cookware[i].quantity,
                                       scaled.ok.cookware[i].quantity)
                 /\ \A i \in 1..Len(scaled.ok.timers) :
                        QuantityAgrees(unwrap(output).timers[i].quantity,
                                       scaled.ok.timers[i].quantity)

C2_Witness ==
    /\ call = "parse_and_scale"
    /\ is_valid(parsed)
    /\ is_none(servings(unwrap(parsed.output).metadata))
    /\ Len(unwrap(parsed.output).ingredients) = 2
    /\ is_err(result)
    /\ output = None

---------------------------------------------------------------------------
\* An output value is the AST value multiplied by factor (text is unchanged)
ScaledValue(w, v, factor) ==
    CASE "number" \in DOMAIN v ->
            w = [Number |-> Rat(v.number[1] * factor[1], v.number[2] * factor[2])]
      [] "start" \in DOMAIN v ->
            w = [Range |->
                    [start |-> Rat(v.start[1] * factor[1], v.start[2] * factor[2]),
                     end |-> Rat(v.end[1] * factor[1], v.end[2] * factor[2])]]
      [] "text" \in DOMAIN v -> w = [Text |-> v.text]

ScaledEntities(outs, asts, factor) ==
    /\ Len(outs) = Len(asts)
    /\ \A i \in 1..Len(asts) :
          /\ outs[i].name = asts[i].name
          /\ is_none(outs[i].quantity) <=> is_none(asts[i].quantity)
          /\ is_some(asts[i].quantity) =>
                LET q == unwrap(asts[i].quantity)
                    o == unwrap(outs[i].quantity)
                IN  /\ o.unit = q.unit
                    /\ is_some(o.value)
                    /\ ScaledValue(unwrap(o.value), q.value, factor)

(* C3: scaling linearity of parse_and_scale.  With declared base servings  *)
(* s and target t, every Number value of the output model is the parsed    *)
(* value times t/s, both bounds of every Range value are multiplied by     *)
(* t/s, and Text values, units and names are unchanged; t = 2s doubles     *)
(* every numeric value and t = s gives the quantities of parse.            *)
C3_ScalingLinear ==
    (call = "parse_and_scale" /\ is_ok(result)) =>
        LET recipe == unwrap(parsed.output)
            s == unwrap(servings(recipe.metadata))
            out == unwrap(output)
            same == parse(parsed, <<>>).output
        IN  /\ \A factor \in {Rat(target, s)} \cup
                             (IF target = 2 * s THEN {<<2, 1>>} ELSE {}) :
                  /\ ScaledEntities(out.ingredients, recipe.ingredients, factor)
                  /\ ScaledEntities(out.cookware, recipe.cookware, factor)
                  /\ ScaledEntities(out.timers, recipe.timers, factor)
            /\ target = s =>
                  /\ out.ingredients = unwrap(same).ingredients
                  /\ out.cookware = unwrap(same).cookware
                  /\ out.timers = unwrap(same).timers

C3_Witness ==
    /\ call = "parse_and_scale"
    /\ is_ok(result)
    /\ unwrap(servings(unwrap(parsed.output).metadata)) * 2 = target
    /\ unwrap(parsed.output).ingredients = <<Salt, Flour>>
    /\ unwrap(output).ingredients[1].quantity =
          <<[value |-> <<[Number |-> <<2, 1>>]>>, unit |-> <<"tsp">>]>>
    /\ unwrap(output).ingredients[2].quantity =
          <<[value |-> <<[Range |-> [start |-> <<2, 1>>, end |-> <<3, 1>>]]>>,
             unit |-> <<>>]>>

---------------------------------------------------------------------------
\* The output items of a step are the AST items, one for one
ItemAgrees(o, a) ==
    CASE "text" \in DOMAIN a -> o.type = "text" /\ o.value = a.text
      [] "ingredient" \in DOMAIN a -> o.type = "ingredient" /\ o.index = a.ingredient
      [] "cookware" \in DOMAIN a -> o.type = "cookware" /\ o.index = a.cookware
      [] "timer" \in DOMAIN a -> o.type = "timer" /\ o.index = a.timer
      [] "inline_quantity" \in DOMAIN a -> o.type = "text" /\ o.value = ""

\* An output reference of one kind is the AST reference and, when in range of
\* the AST list, denotes the entity converted from the AST entity
RefAgrees(o, a, kind, outs, asts) ==
    kind \in DOMAIN a =>
        /\ o.type = kind
        /\ o.index = a[kind]
        /\ a[kind] < Len(asts) =>
              /\ o.index < Len(outs)
              /\ outs[o.index + 1].name = asts[a[kind] + 1].name
              /\ QuantityAgrees(outs[o.index + 1].quantity, asts[a[kind] + 1].quantity)

EntitiesAgree(outs, asts) ==
    /\ Len(outs) = Len(asts)
    /\ \A i \in 1..Len(asts) :
          /\ outs[i].name = asts[i].name
          /\ QuantityAgrees(outs[i].quantity, asts[i].quantity)

(* C4: convert_recipe preserves order and keeps indices valid.  The output *)
(* ingredients, cookware and timers have the length of the AST lists and   *)
(* element i is the conversion of AST element i; every reference item of   *)
(* an output step carries the index of its AST item, so an index in range  *)
(* of the AST list is in range of the output list and denotes the same     *)
(* entity.                                                                 *)
C4_OrderAndIndices ==
    is_ok(result) =>
        LET recipe == ConvertedRecipe
            out == unwrap(output)
        IN  /\ EntitiesAgree(out.ingredients, recipe.ingredients)
            /\ EntitiesAgree(out.cookware, recipe.cookware)
            /\ EntitiesAgree(out.timers, recipe.timers)
            /\ \A i \in 1..Len(recipe.ingredients) :
                  out.ingredients[i].note = recipe.ingredients[i].note
            /\ \A i \in 1..Len(recipe.cookware) :
                  out.cookware[i].note = recipe.cookware[i].note
            /\ \A s \in 1..Len(recipe.sections) :
                \A k \in 1..Len(StepsOf(recipe.sections[s])) :
                  \A j \in 1..Len(StepsOf(recipe.sections[s])[k].step.items) :
                    LET a == StepsOf(recipe.sections[s])[k].step.items[j]
                        o == out.sections[s].content[k].items[j]
                    IN  /\ RefAgrees(o, a, "ingredient",
                                     out.ingredients, recipe.ingredients)
                        /\ RefAgrees(o, a, "cookware", out.cookware, recipe.cookware)
                        /\ RefAgrees(o, a, "timer", out.timers, recipe.timers)

C4_Witness ==
    /\ call = "parse"
    /\ is_ok(result)
    /\ unwrap(parsed.output).ingredients = <<Salt, Flour>>
    /\ unwrap(output).ingredients[2].name = "flour"
    /\ unwrap(parsed.output).sections[1].content[1].step.items =
          <<ItemIngredient(1), ItemTimer(0), ItemIngredient(0)>>
    /\ unwrap(output).sections[1].content[1].items[1] =
          [type |-> "ingredient", index |-> 1]

(* C5: convert_step maps a step to an output step with as many items in    *)
(* the same order: a Text item keeps its string, an Ingredient, Cookware   *)
(* or Timer item keeps its kind and index, an InlineQuantity item becomes  *)
(* a text item with the empty string; no item is dropped, and the output   *)
(* discriminators are text, ingredient, cookware and timer only.           *)
C5_StepItems ==
    is_ok(result) =>
        LET recipe == ConvertedRecipe
            out == unwrap(output)
        IN  \A s \in 1..Len(recipe.sections) :
                \A k \in 1..Len(StepsOf(recipe.sections[s])) :
                    LET a == StepsOf(recipe.sections[s])[k].step.items
                        o == out.sections[s].content[k].items
                    IN  /\ Len(o) = Len(a)
                        /\ \A j \in 1..Len(a) :
                              /\ ItemAgrees(o[j], a[j])
                              /\ o[j].type \in {"text", "ingredient", "cookware", "timer"}

C5_Witness ==
    /\ is_ok(result)
    /\ unwrap(parsed.output).sections[1].content[1].step.items =
          <<ItemText("Add "), ItemInlineQuantity(0), ItemCookware(0)>>
    /\ unwrap(output).sections[1].content[1].items =
          <<[type |-> "text", value |-> "Add "], [type |-> "text", value |-> ""],
            [type |-> "cookware", index |-> 0]>>

---------------------------------------------------------------------------
\* Reading the serialized form
Keys(j) == {j.obj[i][1] : i \in 1..Len(j.obj)}
Field(j, k) == j.obj[CHOOSE i \in 1..Len(j.obj) : j.obj[i][1] = k][2]

RECURSIVE HasNull(_)
HasNull(j) ==
    CASE "null" \in DOMAIN j -> TRUE
      [] "obj" \in DOMAIN j -> \E i \in 1..Len(j.obj) : HasNull(j.obj[i][2])
      [] "arr" \in DOMAIN j -> \E i \in 1..Len(j.arr) : HasNull(j.arr[i])
      [] OTHER -> FALSE

\* Field k is written in object j exactly when the option o holds a value
WrittenIffPresent(j, k, o) == (k \in Keys(j)) <=> is_some(o)

QuantityWritten(j, k, o) ==
    /\ WrittenIffPresent(j, k, o)
    /\ is_some(o) =>
          /\ WrittenIffPresent(Field(j, k), "value", unwrap(o).value)
          /\ WrittenIffPresent(Field(j, k), "unit", unwrap(o).unit)
          /\ Keys(Field(j, k)) \subseteq {"value", "unit"}

(* C7: an optional field (entity quantity, entity note, timer name,        *)
(* section name, quantity value, quantity unit) is in the serialized       *)
(* output exactly when it is present in the output model, and nothing is   *)
(* written as null; a quantity without a unit serializes without a unit    *)
(* field, and one with neither value nor unit serializes as an empty       *)
(* object.                                                                 *)
C7_OptionalFieldsOmitted ==
    is_ok(result) =>
        LET out == unwrap(output)
            j == result.ok
        IN  /\ ~HasNull(j)
            /\ ser_quantity(QuantityOutput(None, None)) = [obj |-> <<>>]
            /\ \A i \in 1..Len(out.ingredients) :
                  LET ji == Field(j, "ingredients").arr[i]
                  IN  /\ QuantityWritten(ji, "quantity", out.ingredients[i].quantity)
                      /\ WrittenIffPresent(ji, "note", out.ingredients[i].note)
            /\ \A i \in 1..Len(out.cookware) :
                  LET ji == Field(j, "cookware").arr[i]
                  IN  /\ QuantityWritten(ji, "quantity", out.cookware[i].quantity)
                      /\ WrittenIffPresent(ji, "note", out.cookware[i].note)
            /\ \A i \in 1..Len(out.timers) :
                  LET ji == Field(j, "timers").arr[i]
                  IN  /\ QuantityWritten(ji, "quantity", out.timers[i].quantity)
                      /\ WrittenIffPresent(ji, "name", out.timers[i].name)
            /\ \A i \in 1..Len(out.sections) :
                  WrittenIffPresent(Field(j, "sections").arr[i], "name",
                                    out.sections[i].name)

C7_Witness ==
    /\ is_ok(result)
    /\ unwrap(parsed.output).ingredients = <<Salt, Flour>>
    /\ unwrap(parsed.output).cookware = <<Pan>>
    /\ unwrap(parsed.output).timers = <<Boil>>
    /\ Keys(Field(Field(result.ok, "ingredients").arr[2], "quantity")) = {"value"}
    /\ Keys(Field(result.ok, "ingredients").arr[1]) = {"name", "quantity"}
    /\ Keys(Field(result.ok, "cookware").arr[1]) = {"name"}
    /\ Keys(Field(result.ok, "timers").arr[1]) = {"quantity"}
    /\ Keys(Field(result.ok, "sections").arr[1]) = {"content"}

(* C8: the output has one section per AST section, in order and with the   *)
(* same optional name; a section's content is the steps among the AST      *)
(* section's content entries, converted, in their original order; an       *)
(* entry that is no step is dropped without an error or a warning.         *)
C8_SectionsKeepSteps ==
    /\ (call = "parse" /\ is_valid(parsed)) => is_ok(result)
    /\ is_ok(result) =>
        LET recipe == ConvertedRecipe
            out == unwrap(output)
        IN  /\ Len(out.sections) = Len(recipe.sections)
            /\ Len(out.warnings) = Len(parsed.report)
            /\ \A s \in 1..Len(recipe.sections) :
                  LET steps == StepsOf(recipe.sections[s])
                      content == out.sections[s].content
                  IN  /\ out.sections[s].name = recipe.sections[s].name
                      /\ Len(content) = Len(steps)
                      /\ \A k \in 1..Len(steps) :
                            /\ Len(content[k].items) = Len(steps[k].step.items)
                            /\ \A i \in 1..Len(steps[k].step.items) :
                                  ItemAgrees(content[k].items[i], steps[k].step.items[i])

C8_Witness ==
    /\ call = "parse"
    /\ is_ok(result)
    /\ Len(unwrap(parsed.output).sections) = 2
    /\ unwrap(parsed.output).sections[2] =
          Section(Some("Prep"), <<StepA, ContentText("Intro"), StepB>>)
    /\ unwrap(output).sections[2] =
          [name |-> <<"Prep">>,
           content |-> <<[items |-> <<[type |-> "text", value |-> "Add "],
                                      [type |-> "ingredient", index |-> 0]>>],
                         [items |-> <<[type |-> "timer", index |-> 0]>>]>>]

(* C9: the warnings of the output model are the warning messages of the    *)
(* parse report in report order, none removed and none moved; no error     *)
(* message of the report is among them (a report with an error gives a     *)
(* failure and no output model); this holds for parse and parse_and_scale. *)
C9_WarningsInReportOrder ==
    /\ is_ok(result) =>
          /\ \A i \in 1..Len(parsed.report) : parsed.report[i].severity = "warning"
          /\ Len(unwrap(output).warnings) = Len(parsed.report)
          /\ \A i \in 1..Len(parsed.report) :
                unwrap(output).warnings[i] = parsed.report[i].message
          /\ Field(result.ok, "warnings") =
                [arr |-> [i \in 1..Len(parsed.report) |->
                             [str |-> parsed.report[i].message]]]
    /\ (Returned /\ \E i \in 1..Len(parsed.report) : parsed.report[i].severity = "error")
          => (is_err(result) /\ output = None)

C9_Witness ==
    /\ call = "parse_and_scale"
    /\ is_ok(result)
    /\ unwrap(output).warnings = <<"w2", "w1", "w2">>

---------------------------------------------------------------------------
\* The string form of a metadata key or value: itself if it is a string, else ""
StringForm(y) == IF "str" \in DOMAIN y THEN y.str ELSE ""

(* C10, as claimed: metadata conversion never fails, and every AST         *)
(* metadata entry (k, v) has its output entry: the output metadata at the  *)
(* string form of k is the string form of v.                               *)
C10_EveryEntryKept ==
    is_ok(result) =>
        LET md == ConvertedRecipe.metadata
            out == unwrap(output).metadata
        IN  \A i \in 1..Len(md) :
                /\ StringForm(md[i][1]) \in DOMAIN out
                /\ out[StringForm(md[i][1])] = StringForm(md[i][2])

(* C10, amended: metadata conversion never fails; the keys of the output   *)
(* metadata are the string forms of the AST keys, and the output metadata  *)
(* at the string form of k is the string form of the value of the last AST *)
(* entry, in map order, whose key has that string form.                    *)
C10_LastEntryOfEachKeyKept ==
    /\ (call = "parse" /\ is_valid(parsed)) => is_ok(result)
    /\ is_ok(result) =>
        LET md == ConvertedRecipe.metadata
            out == unwrap(output).metadata
        IN  /\ DOMAIN out = {StringForm(md[i][1]) : i \in 1..Len(md)}
            /\ \A i \in 1..Len(md) :
                  (\A j \in (i + 1)..Len(md) :
                        StringForm(md[j][1]) # StringForm(md[i][1]))
                  => out[StringForm(md[i][1])] = StringForm(md[i][2])

C10_Witness ==
    /\ is_ok(result)
    /\ unwrap(parsed.output).metadata =
          <<<<YNum(1), YStr("Soup")>>, <<YNum(2), YNum(4)>>>>
    /\ DOMAIN unwrap(output).metadata = {""}
    /\ unwrap(output).metadata[""] = ""

---------------------------------------------------------------------------
(* C6, as claimed: converting and serializing the same AST with the same   *)
(* report twice gives the same serialized output, also when the metadata   *)
(* map has two or more entries.                                            *)
C6_SameOutputTwice ==
    [][(call' = call /\ is_ok(result) /\ is_ok(result')) => result'.ok = result.ok]_vars

=============================================================================
